---------------------------- MODULE Spec2Model ----------------------------
(***************************************************************************)
(* A model of chestnut_tools/utils/etl.py:                                 *)
(*   find_files_by_date_and_extension  (date token parsing, directory      *)
(*                                      pruning, file collection)          *)
(*   flatten_iteratively               (explicit-stack list flattening)    *)
(*   process_zipped_dat_files_with_fwf (extraction, .dat discovery,        *)
(*                                      parsing, concatenation, cleanup)   *)
(*   write_and_clean_chunk_to_sql      (chunk cleaning, append to a table) *)
(*                                                                         *)
(* Strings the code inspects character by character (date tokens,          *)
(* directory names, file names) are sequences of one-character strings.    *)
(***************************************************************************)
EXTENDS Integers, Sequences, FiniteSets, TLC

VARIABLES
    \* find_files_by_date_and_extension
    date_input,         \* the date token passed by the caller
    base_dir,           \* the entries os.scandir(base_dir) yields
    matching_extension, \* the extension argument
    start_date,         \* parse_date_input's first result
    end_date,           \* parse_date_input's second result
    passed,             \* names printed "Passed directory range test"
    matching_files,     \* the returned list, as a set of paths
    scanned,            \* whether os.scandir(base_dir) was reached
    find_pc,            \* "call" | "returned" | "ValueError"
    \* flatten_iteratively
    nested_list,        \* the argument
    stack,              \* the work list
    flattened,          \* the output list
    flat_pc,            \* "start" | "loop" | "returned"
    \* process_zipped_dat_files_with_fwf
    fs,                 \* the directories that exist, each with its files
    next_tmp,           \* the number tempfile.mkdtemp() gives out next
    ncalls,             \* calls made so far
    zcall,              \* the last call: arguments, unzip_dir, outcome, table
    \* write_and_clean_chunk_to_sql
    tables,             \* table name -> its rows (absent: no such table)
    written,            \* table name -> the chunks whose write returned
    nwrites             \* calls made so far

find_vars == <<date_input, base_dir, matching_extension, start_date, end_date,
               passed, matching_files, scanned, find_pc>>
flat_vars == <<nested_list, stack, flattened, flat_pc>>
zip_vars  == <<fs, next_tmp, ncalls, zcall>>
sql_vars  == <<tables, written, nwrites>>
vars == <<find_vars, flat_vars, zip_vars, sql_vars>>

(***************************************************************************)
(* Characters and decimal strings                                          *)
(***************************************************************************)
DigitChars == <<"0", "1", "2", "3", "4", "5", "6", "7", "8", "9">>

Digits == {DigitChars[i] : i \in 1..10}

\* int(c) of one digit character
DigitVal(c) == (CHOOSE i \in 1..10 : DigitChars[i] = c) - 1

\* whether position i of s exists and holds a character of set S
At(s, i, S) == i >= 1 /\ i <= Len(s) /\ s[i] \in S

RECURSIVE Num(_)
\* int(s) of a string of digits
Num(s) ==
    IF s = <<>> THEN 0
    ELSE 10 * Num(SubSeq(s, 1, Len(s) - 1)) + DigitVal(s[Len(s)])

\* the two-digit and four-digit decimal strings dates and names are written with
Str2(n) == <<DigitChars[(n \div 10) + 1], DigitChars[(n % 10) + 1]>>

Str4(n) == Str2(n \div 100) \o Str2(n % 100)

\* str.endswith
EndsWith(s, suffix) ==
    /\ Len(s) >= Len(suffix)
    /\ SubSeq(s, Len(s) - Len(suffix) + 1, Len(s)) = suffix

RECURSIVE Strip(_)
\* str.strip for the one whitespace character of the alphabet
Strip(s) ==
    IF s = <<>> THEN s
    ELSE IF Head(s) = " " THEN Strip(Tail(s))
    ELSE IF s[Len(s)] = " " THEN Strip(SubSeq(s, 1, Len(s) - 1))
    ELSE s

RECURSIVE Split(_, _)
\* str.split(sep) for a one-character separator: the list of parts
Split(s, sep) ==
    IF \A i \in 1..Len(s) : s[i] # sep THEN <<s>>
    ELSE LET k == CHOOSE i \in 1..Len(s) :
                     s[i] = sep /\ \A j \in 1..(i - 1) : s[j] # sep
         IN <<SubSeq(s, 1, k - 1)>> \o Split(SubSeq(s, k + 1, Len(s)), sep)

(***************************************************************************)
(* datetime: calendar dates (the time of day is always 00:00:00 here)      *)
(***************************************************************************)
Date(y, m, d) == [y |-> y, m |-> m, d |-> d]

IsLeap(y) == (y % 4 = 0) /\ ((y % 100 # 0) \/ (y % 400 = 0))

DaysInMonth(y, m) ==
    IF m = 2 THEN (IF IsLeap(y) THEN 29 ELSE 28)
    ELSE IF m \in {4, 6, 9, 11} THEN 30 ELSE 31

\* datetime comparison a <= b
DateLE(a, b) ==
    \/ a.y < b.y
    \/ a.y = b.y /\ a.m < b.m
    \/ a.y = b.y /\ a.m = b.m /\ a.d <= b.d

RECURSIVE AddDays(_, _)
\* dt + timedelta(days=n), n >= 0
AddDays(dt, n) ==
    IF dt.d + n <= DaysInMonth(dt.y, dt.m) THEN Date(dt.y, dt.m, dt.d + n)
    ELSE LET used == DaysInMonth(dt.y, dt.m) - dt.d + 1
             nxt  == IF dt.m = 12 THEN Date(dt.y + 1, 1, 1)
                     ELSE Date(dt.y, dt.m + 1, 1)
         IN AddDays(nxt, n - used)

\* dt - timedelta(days=1)
SubOneDay(dt) ==
    IF dt.d > 1 THEN Date(dt.y, dt.m, dt.d - 1)
    ELSE IF dt.m > 1 THEN Date(dt.y, dt.m - 1, DaysInMonth(dt.y, dt.m - 1))
    ELSE Date(dt.y - 1, 12, 31)

\* dt.replace(day=1)
ReplaceDay1(dt) == Date(dt.y, dt.m, 1)


(***************************************************************************)
(* datetime.strptime for the two formats the code uses.  The format is     *)
(* compiled to a regular expression: %Y is \d\d\d\d, %m is                 *)
(* 1[0-2]|0[1-9]|[1-9] and %d is 3[0-1]|[1-2]\d|0[1-9]|[1-9]| [1-9]; the   *)
(* first match in backtracking order is taken, and text left after it, a   *)
(* year 0 or a day the month does not have is a ValueError.                *)
(***************************************************************************)
NonZeroDigits == Digits \ {"0"}

\* the lengths %m can match at position i, in the order the alternatives are tried
MonthAlts(s, i) ==
    (IF At(s, i, {"1"}) /\ At(s, i + 1, {"0", "1", "2"}) THEN <<2>> ELSE <<>>)
    \o (IF At(s, i, {"0"}) /\ At(s, i + 1, NonZeroDigits) THEN <<2>> ELSE <<>>)
    \o (IF At(s, i, NonZeroDigits) THEN <<1>> ELSE <<>>)

\* the lengths %d can match at position i, in the order the alternatives are tried
DayAlts(s, i) ==
    (IF At(s, i, {"3"}) /\ At(s, i + 1, {"0", "1"}) THEN <<2>> ELSE <<>>)
    \o (IF At(s, i, {"1", "2"}) /\ At(s, i + 1, Digits) THEN <<2>> ELSE <<>>)
    \o (IF At(s, i, {"0"}) /\ At(s, i + 1, NonZeroDigits) THEN <<2>> ELSE <<>>)
    \o (IF At(s, i, NonZeroDigits) THEN <<1>> ELSE <<>>)
    \o (IF At(s, i, {" "}) /\ At(s, i + 1, NonZeroDigits) THEN <<2>> ELSE <<>>)

NoDate == Date(0, 0, 0)

\* a strptime result: a datetime, or the ValueError it raised
Parsed(dt) == [err |-> FALSE, dt |-> dt]

ParseError == [err |-> TRUE, dt |-> NoDate]

\* datetime.strptime(s, "%Y%m")
StrptimeYm(s) ==
    LET ms == MonthAlts(s, 5) IN
    IF ~(\A i \in 1..4 : At(s, i, Digits)) \/ ms = <<>> THEN ParseError
    ELSE LET stop == 4 + ms[1]
             y == Num(SubSeq(s, 1, 4))
             m == Num(SubSeq(s, 5, stop))
         IN IF stop # Len(s) \/ y = 0 THEN ParseError
            ELSE Parsed(Date(y, m, 1))

RECURSIVE YmdMatches(_, _)
\* the <<month length, day length>> pairs %m%d can match from position 5, in
\* backtracking order, for the month alternatives ms still to try
YmdMatches(s, ms) ==
    IF ms = <<>> THEN <<>>
    ELSE LET ds == DayAlts(s, 5 + Head(ms))
         IN [j \in 1..Len(ds) |-> <<Head(ms), ds[j]>>] \o YmdMatches(s, Tail(ms))

\* datetime.strptime(s, "%Y%m%d")
StrptimeYmd(s) ==
    LET found == YmdMatches(s, MonthAlts(s, 5)) IN
    IF ~(\A i \in 1..4 : At(s, i, Digits)) \/ found = <<>> THEN ParseError
    ELSE LET ml == found[1][1]
             dl == found[1][2]
             y == Num(SubSeq(s, 1, 4))
             m == Num(SubSeq(s, 5, 4 + ml))
             d == Num(Strip(SubSeq(s, 5 + ml, 4 + ml + dl)))
         IN IF 4 + ml + dl # Len(s) \/ y = 0 \/ d > DaysInMonth(y, m)
            THEN ParseError
            ELSE Parsed(Date(y, m, d))

(***************************************************************************)
(* find_files_by_date_and_extension                                        *)
(***************************************************************************)
\* the YYYYMM branch's end date, one day short of the next month
MonthEnd30(start) == SubOneDay(ReplaceDay1(AddDays(start, 30)))

\* the YYYYMM branch's end date: (start + 31 days).replace(day=1) - 1 day
MonthEnd(start) == SubOneDay(ReplaceDay1(AddDays(start, 31)))

\* what parse_date_input returns: the two dates, or the ValueError raised
Range(a, b) == [err |-> FALSE, start |-> a, end |-> b]

RangeError == [err |-> TRUE, start |-> NoDate, end |-> NoDate]

parse_date_input(s) ==
    IF \E i \in 1..Len(s) : s[i] = "-" THEN
        LET parts == Split(s, "-") IN
        IF Len(parts) # 2 THEN RangeError
        ELSE LET a == StrptimeYmd(Strip(parts[1]))
                 b == StrptimeYmd(Strip(parts[2]))
             IN IF a.err \/ b.err THEN RangeError ELSE Range(a.dt, b.dt)
    ELSE IF Len(s) = 6 THEN
        LET a == StrptimeYm(s) IN
        IF a.err THEN RangeError ELSE Range(a.dt, MonthEnd(a.dt))
    ELSE IF Len(s) = 8 THEN
        LET a == StrptimeYmd(s) IN
        IF a.err THEN RangeError ELSE Range(a.dt, a.dt)
    ELSE RangeError

is_directory_in_range(dir_name, start, end) ==
    LET dir_date == StrptimeYm(dir_name) IN
    IF dir_date.err THEN FALSE
    ELSE DateLE(start, dir_date.dt) /\ DateLE(dir_date.dt, end)

\* the top-level entries that pass the is_dir and range tests
KeptEntries(entries, start, end) ==
    {e \in entries : e.is_dir /\ is_directory_in_range(e.name, start, end)}

\* the files os.walk finds under the kept entries that end with the extension
CollectFiles(kept, ext) ==
    UNION {{[dir |-> e.name, path |-> p] :
                p \in {q \in e.files : EndsWith(q[Len(q)], ext)}} : e \in kept}

\* one call of find_files_by_date_and_extension
FindFiles ==
    /\ find_pc = "call"
    /\ LET r == parse_date_input(date_input) IN
       IF r.err
       THEN /\ find_pc' = "ValueError"
            /\ UNCHANGED <<start_date, end_date, passed, matching_files, scanned>>
       ELSE LET kept == KeptEntries(base_dir, r.start, r.end) IN
            /\ find_pc' = "returned"
            /\ start_date' = r.start
            /\ end_date' = r.end
            /\ scanned' = TRUE
            /\ passed' = {e.name : e \in kept}
            /\ matching_files' = CollectFiles(kept, matching_extension)
    /\ UNCHANGED <<date_input, base_dir, matching_extension>>
    /\ UNCHANGED <<flat_vars, zip_vars, sql_vars>>

(***************************************************************************)
(* Inputs of find_files_by_date_and_extension                              *)
(***************************************************************************)
\* years after 2020 the tokens and directory names range over
YearSpan == 1

Years == {1900, 2000} \cup {2020 + i : i \in 0..YearSpan}

\* the day fields the single-day tokens range over: every day of a month,
\* and the two nearest numbers that are no day
TokenDays == 0..32

Ym(y, m) == Str4(y) \o Str2(m)

Ymd(y, m, d) == Str4(y) \o Str2(m) \o Str2(d)

MonthTokens == {Ym(y, m) : y \in Years, m \in 1..12}

DayTokens == {Ymd(y, m, d) : y \in Years, m \in 1..12, d \in TokenDays}

\* the two sides of a range token: well formed, padded, and malformed
RangeParts ==
    {Ymd(2020, 2, 15), Ymd(2020, 3, 1), Ymd(2020, 3, 15), Ymd(2021, 1, 31),
     <<" ">> \o Ymd(2020, 2, 1) \o <<" ">>,
     Str4(2020) \o <<"1", "1", "1">>,
     Str4(2020) \o <<"1", "2">>,
     Ym(2020, 3),
     Ymd(2020, 2, 30),
     Str4(2020) \o <<"0", "3", "x", "1">>,
     <<>>}

RangeTokens ==
    {a \o <<"-">> \o b : a, b \in RangeParts}
        \cup {Ymd(2020, 2, 15) \o <<"-">> \o Ymd(2020, 3, 1) \o <<"-">> \o Ymd(2020, 3, 15)}

\* tokens of no documented form
OtherTokens ==
    {<<>>,
     Str4(2020),
     Str4(2020) \o <<"3">>,
     Ym(2020, 13),
     Ym(2020, 0),
     Ym(0, 1),
     Str4(2020) \o <<"0", "x">>,
     Str4(2020) \o <<" ", "3">>,
     Ym(2020, 2) \o <<"1">>,
     Ym(2020, 1) \o <<" ", "5">>,
     Ym(2020, 1) \o <<"0", "x">>,
     Ymd(2020, 13, 1),
     Ymd(2020, 2, 15) \o <<" ">>,
     Ymd(2020, 2, 15) \o <<"0">>,
     <<"n", "o", "t", "a", "d", "a", "t", "e">>}

Tokens == MonthTokens \cup DayTokens \cup RangeTokens \cup OtherTokens

\* the months the month-named directories range over
DirMonths == {1, 2, 3, 12}

NotADate == <<"n", "o", "t", "a", "d", "a", "t", "e">>

DirNames ==
    {Ym(y, m) : y \in Years, m \in DirMonths}
        \cup {Str4(2020) \o <<"3">>,
              Str4(2020),
              Ym(2020, 13),
              Ym(2020, 3) \o <<"1">>,
              Ym(2020, 3) \o <<"x">>}

ZipExt == <<".", "z", "i", "p">>

DatExt == <<".", "d", "a", "t">>

Extensions == {ZipExt, DatExt}

\* the files below one directory, each the names from the directory down
TreeFiles ==
    {<< <<"a">> \o ZipExt >>,
     << <<"s", "u", "b">>, <<"b">> \o ZipExt >>,
     << <<"c">> \o DatExt >>,
     << <<"z", "i", "p">> >>}

Entry(name, is_dir, files) == [name |-> name, is_dir |-> is_dir, files |-> files]

\* base directories: a directory that is not named for a month, beside one
\* more entry (a directory of any of the names, or a regular file named for
\* a month)
Layouts ==
    {{Entry(NotADate, TRUE, TreeFiles), e} :
        e \in {Entry(n, TRUE, TreeFiles) : n \in DirNames}
                  \cup {Entry(Ym(2020, 3), FALSE, {})}}

FindInit ==
    /\ date_input \in Tokens
    /\ base_dir \in Layouts
    /\ matching_extension \in Extensions
    /\ start_date = NoDate
    /\ end_date = NoDate
    /\ passed = {}
    /\ matching_files = {}
    /\ scanned = FALSE
    /\ find_pc = "call"

\* find_files_by_date_and_extension is not called
FindIdle ==
    /\ date_input = <<>>
    /\ base_dir = {}
    /\ matching_extension = ZipExt
    /\ start_date = NoDate
    /\ end_date = NoDate
    /\ passed = {}
    /\ matching_files = {}
    /\ scanned = FALSE
    /\ find_pc = "idle"

(***************************************************************************)
(* flatten_iteratively                                                     *)
(***************************************************************************)
\* a Python value that is not a list, and one that is
Leaf(v) == [isList |-> FALSE, val |-> v, items |-> <<>>]

List(items) == [isList |-> TRUE, val |-> 0, items |-> items]

\* s[::-1]
Reverse(s) == [i \in 1..Len(s) |-> s[Len(s) + 1 - i]]

\* a wrong extend: the popped list's items pushed in their own order
ExtendForward(rest, item) == rest \o item.items

\* stack.extend(item[::-1]) on the stack left by the pop
ExtendReversed(rest, item) == rest \o Reverse(item.items)

\* stack = nested_list[::-1]; flattened = []
FlattenStart ==
    /\ flat_pc = "start"
    /\ stack' = Reverse(nested_list)
    /\ flattened' = <<>>
    /\ flat_pc' = "loop"
    /\ UNCHANGED nested_list
    /\ UNCHANGED <<find_vars, zip_vars, sql_vars>>

\* one iteration of the while loop
FlattenStep ==
    /\ flat_pc = "loop"
    /\ stack # <<>>
    /\ LET item == stack[Len(stack)]
           rest == SubSeq(stack, 1, Len(stack) - 1)
       IN IF item.isList
          THEN /\ stack' = ExtendReversed(rest, item)
               /\ UNCHANGED flattened
          ELSE /\ stack' = rest
               /\ flattened' = Append(flattened, item)
    /\ UNCHANGED <<nested_list, flat_pc>>
    /\ UNCHANGED <<find_vars, zip_vars, sql_vars>>

\* the loop ends on an empty stack; return flattened
FlattenReturn ==
    /\ flat_pc = "loop"
    /\ stack = <<>>
    /\ flat_pc' = "returned"
    /\ UNCHANGED <<nested_list, stack, flattened>>
    /\ UNCHANGED <<find_vars, zip_vars, sql_vars>>

\* the most items, lists and non-lists together, an argument holds
MaxSize == 4

LeafValues == {1, 2}

RECURSIVE ListsOfSize(_), ItemsOfSize(_)
\* the lists whose items, with all the items below them, number n
ListsOfSize(n) ==
    IF n = 0 THEN {<<>>}
    ELSE UNION {{<<t>> \o f : t \in ItemsOfSize(k), f \in ListsOfSize(n - k)} :
                    k \in 1..n}

\* the single items that, with all the items below them, number n
ItemsOfSize(n) ==
    IF n = 1 THEN {Leaf(v) : v \in LeafValues} \cup {List(<<>>)}
    ELSE {List(f) : f \in ListsOfSize(n - 1)}

\* [1, [2, [3, 4], 5], 6]
DocExample ==
    <<Leaf(1), List(<<Leaf(2), List(<<Leaf(3), Leaf(4)>>), Leaf(5)>>), Leaf(6)>>

NestedLists == UNION {ListsOfSize(n) : n \in 0..MaxSize} \cup {DocExample}

FlatInit ==
    /\ nested_list \in NestedLists
    /\ stack = <<>>
    /\ flattened = <<>>
    /\ flat_pc = "start"

\* flatten_iteratively is not called
FlatIdle ==
    /\ nested_list = <<>>
    /\ stack = <<>>
    /\ flattened = <<>>
    /\ flat_pc = "idle"

(***************************************************************************)
(* process_zipped_dat_files_with_fwf                                       *)
(*                                                                         *)
(* A directory is the set of files below it; a file is its path below the  *)
(* directory, the columns and row count pd.read_fwf finds in it, and the   *)
(* archive it was extracted from.  A table is its columns and its rows,    *)
(* each row known by the archive, file and line it came from (os.walk's    *)
(* order, and so the row order, is the platform's: rows are a set).        *)
(***************************************************************************)
File(name, cols, nrows, origin) ==
    [name |-> name, cols |-> cols, nrows |-> nrows, origin |-> origin]

DatName(stem) == stem \o DatExt

\* the archives a call may be given
Archive(id, readable, members) ==
    [id |-> id, readable |-> readable, members |-> members]

Archives ==
    {Archive("same_columns", TRUE,
             {File(DatName(<<"a">>), {"x", "y"}, 2, "same_columns"),
              File(DatName(<<"s", "u", "b", "/", "b">>), {"x", "y"}, 1, "same_columns"),
              File(<<"r", ".", "t", "x", "t">>, {}, 0, "same_columns")}),
     Archive("other_columns", TRUE,
             {File(DatName(<<"c">>), {"x", "y"}, 1, "other_columns"),
              File(DatName(<<"d">>), {"x", "z"}, 2, "other_columns")}),
     Archive("no_dat", TRUE,
             {File(<<"r", ".", "t", "x", "t">>, {}, 0, "no_dat")}),
     Archive("not_a_zip", FALSE, {}),
     Archive("empty_dat", TRUE,
             {File(DatName(<<"e">>), {}, 0, "empty_dat")}),
     Archive("same_name", TRUE,
             {File(DatName(<<"a">>), {"x", "y"}, 3, "same_name")})}

\* directory names: output_dir=None, a caller's output_dir, "./tmp/" (which
\* is "tmp/"), and the n-th directory of tempfile.mkdtemp()
None == <<"None", 0>>

OutDir == <<"out", 0>>

DefaultDir == <<"tmp/", 0>>

TempDir(n) == <<"mkdtemp", n>>

\* os.makedirs(d, exist_ok=True)
MakeDirs(files, d) ==
    IF d \in DOMAIN files THEN files
    ELSE [x \in DOMAIN files \cup {d} |-> IF x = d THEN {} ELSE files[x]]

\* ZipFile.extractall(d): members replace files of the same path
ExtractAll(files, d, members) ==
    [files EXCEPT ![d] =
        {f \in @ : \A g \in members : g.name # f.name} \cup members]

\* the os.walk loop: the files below d whose name ends with ".dat"
FindDatFiles(files, d) == {f \in files[d] : EndsWith(f.name, DatExt)}

\* pd.read_fwf raises EmptyDataError on a file with no columns to parse
IsEmptyData(f) == f.cols = {}

\* pd.read_fwf(f, colspecs="infer"): the file's table
ReadFwf(f) ==
    [cols |-> f.cols,
     rows |-> {[origin |-> f.origin, file |-> f.name, line |-> i] : i \in 1..f.nrows}]

\* pd.concat(dataframes, axis=0): the default outer join keeps the union of
\* the columns (cells of a column a frame lacks are NaN) and stacks the rows
Concat(dataframes) ==
    [cols |-> UNION {df.cols : df \in dataframes},
     rows |-> UNION {df.rows : df \in dataframes}]

\* shutil.rmtree(d)
RmTree(files, d) == [x \in DOMAIN files \ {d} |-> files[x]]

\* shutil.move(src, dst) of a directory onto an existing directory: nothing
\* moves when both are the same directory, else src goes below dst
Move(files, src, dst) ==
    IF src = dst THEN files
    ELSE [x \in DOMAIN files \ {src} |->
              IF x = dst THEN files[dst] \cup files[src] ELSE files[x]]

\* a cleanup that leaves the temporary directory behind
KeepUnzipped(files, keep_unzipped, unzip_dir, output_dir) ==
    IF keep_unzipped
    THEN LET dst == IF output_dir = None THEN DefaultDir ELSE output_dir
         IN Move(MakeDirs(files, dst), unzip_dir, dst)
    ELSE files

\* the last step: keep the unzipped files in output_dir, or remove them
HandleUnzipped(files, keep_unzipped, unzip_dir, output_dir) ==
    IF keep_unzipped
    THEN LET dst == IF output_dir = None THEN DefaultDir ELSE output_dir
         IN Move(MakeDirs(files, dst), unzip_dir, dst)
    ELSE RmTree(files, unzip_dir)

NoTable == [cols |-> {}, rows |-> {}]

Call(zip, keep, out, dir, outcome, table) ==
    [zip |-> zip, keep_unzipped |-> keep, output_dir |-> out, unzip_dir |-> dir,
     outcome |-> outcome, table |-> table]

\* the calls one run makes
MaxCalls == 3

\* one call of process_zipped_dat_files_with_fwf
ProcessZip(zip, keep_unzipped, output_dir) ==
    /\ ncalls < MaxCalls
    /\ ncalls' = ncalls + 1
    /\ LET unzip_dir == IF ~keep_unzipped THEN TempDir(next_tmp)
                        ELSE IF output_dir # None THEN output_dir ELSE DefaultDir
           made == MakeDirs(fs, unzip_dir)
           extracted == ExtractAll(made, unzip_dir, zip.members)
           dat_files == FindDatFiles(extracted, unzip_dir)
           Raised(e, files) ==
               /\ fs' = files
               /\ zcall' = Call(zip.id, keep_unzipped, output_dir, unzip_dir, e, NoTable)
       IN /\ next_tmp' = IF keep_unzipped THEN next_tmp ELSE next_tmp + 1
          /\ IF ~zip.readable THEN Raised("BadZipFile", made)
             ELSE IF dat_files = {} THEN Raised("FileNotFoundError", extracted)
             ELSE IF \E f \in dat_files : IsEmptyData(f)
                  THEN Raised("EmptyDataError", extracted)
             ELSE /\ fs' = HandleUnzipped(extracted, keep_unzipped, unzip_dir, output_dir)
                  /\ zcall' = Call(zip.id, keep_unzipped, output_dir, unzip_dir,
                                   "returned",
                                   Concat({ReadFwf(f) : f \in dat_files}))
    /\ UNCHANGED <<find_vars, flat_vars, sql_vars>>

ZipInit ==
    /\ fs = [d \in {} |-> {}]
    /\ next_tmp = 1
    /\ ncalls = 0
    /\ zcall = Call("none", FALSE, None, None, "none", NoTable)

(***************************************************************************)
(* write_and_clean_chunk_to_sql                                            *)
(*                                                                         *)
(* A chunk is a list of rows with a date string, a time string and one     *)
(* more column; a table is the list of the rows inserted into it.          *)
(***************************************************************************)
NaT == [nat |-> TRUE, t |-> 0]

Timestamp(t) == [nat |-> FALSE, t |-> t]

\* pd.to_datetime(x, format="%Y-%m-%d", errors="coerce"), in days since 1970-01-01
ToDatetime(x) ==
    CASE x = "2023-01-01" -> Timestamp(19358)
      [] x = "2023-01-02" -> Timestamp(19359)
      [] OTHER -> NaT

\* whether pd.to_timedelta parses x (it raises ValueError when it does not)
IsTimedelta(x) == x \in {"13:45:00.000", "00:00:01.000"}

\* pd.to_timedelta(x), in seconds
ToTimedelta(x) ==
    CASE x = "13:45:00.000" -> 49500
      [] x = "00:00:01.000" -> 1
      [] OTHER -> 0

\* chunk["date"] + chunk["time"] for one row, in seconds since 1970-01-01
AddTime(date, time) == IF date.nat THEN NaT ELSE Timestamp(date.t * 86400 + time)

\* the row written for a chunk row: datetime added, date and time dropped
CleanRow(r) ==
    [datetime |-> AddTime(ToDatetime(r.date), ToTimedelta(r.time)), v |-> r.v]

CleanChunk(chunk) == [i \in 1..Len(chunk) |-> CleanRow(chunk[i])]

RECURSIVE InsertBatches(_, _, _)
\* the inserts of DataFrame.to_sql(chunksize=batch_size): batch after batch
InsertBatches(rows, new, batch_size) ==
    IF new = <<>> THEN rows
    ELSE LET n == IF Len(new) < batch_size THEN Len(new) ELSE batch_size
         IN InsertBatches(rows \o SubSeq(new, 1, n),
                          SubSeq(new, n + 1, Len(new)), batch_size)

\* to_sql(if_exists="replace"): the table is dropped before the inserts
ToSqlReplace(tbls, table_name, new, batch_size) ==
    [t \in DOMAIN tbls \cup {table_name} |->
        IF t = table_name THEN InsertBatches(<<>>, new, batch_size)
        ELSE tbls[t]]

\* to_sql(if_exists="append"): the table is created when it does not exist,
\* and the rows are inserted after those it holds
ToSqlAppend(tbls, table_name, new, batch_size) ==
    [t \in DOMAIN tbls \cup {table_name} |->
        IF t = table_name
        THEN InsertBatches(IF t \in DOMAIN tbls THEN tbls[t] ELSE <<>>, new, batch_size)
        ELSE tbls[t]]

\* the rows of a chunk, the largest batch size and the calls of one run
MaxChunkRows == 2

MaxBatch == 2

MaxWrites == 2

ChunkRows ==
    {[date |-> "2023-01-01", time |-> "13:45:00.000", v |-> 1],
     [date |-> "01/02/2023", time |-> "00:00:01.000", v |-> 2]}

BadTimeChunk == <<[date |-> "2023-01-02", time |-> "noon", v |-> 3]>>

Chunks ==
    UNION {[1..n -> ChunkRows] : n \in 0..MaxChunkRows} \cup {BadTimeChunk}

TableNames == {"eosac", "other"}

\* one call of write_and_clean_chunk_to_sql
WriteChunk(chunk, table_name, batch_size) ==
    /\ nwrites < MaxWrites
    /\ nwrites' = nwrites + 1
    /\ IF \E i \in 1..Len(chunk) : ~IsTimedelta(chunk[i].time)
       THEN UNCHANGED <<tables, written>>
       ELSE /\ tables' = ToSqlAppend(tables, table_name, CleanChunk(chunk), batch_size)
            /\ written' = [written EXCEPT ![table_name] = Append(@, chunk)]
    /\ UNCHANGED <<find_vars, flat_vars, zip_vars>>

SqlInit ==
    /\ tables = [t \in {} |-> <<>>]
    /\ written = [t \in TableNames |-> <<>>]
    /\ nwrites = 0

(***************************************************************************)
(* Specifications, one per function                                        *)
(***************************************************************************)
FindStart == FindInit /\ FlatIdle /\ ZipInit /\ SqlInit

FindNext == FindFiles

SpecFind == FindStart /\ [][FindNext]_vars

FlatStart == FindIdle /\ FlatInit /\ ZipInit /\ SqlInit

FlatNext == FlattenStart \/ FlattenStep \/ FlattenReturn

\* the function runs to its return: every step that can be taken is taken
SpecFlatten == FlatStart /\ [][FlatNext]_vars /\ WF_vars(FlatNext)

ZipStart == FindIdle /\ FlatIdle /\ ZipInit /\ SqlInit

ZipNext ==
    \E zip \in Archives, keep_unzipped \in BOOLEAN, output_dir \in {None, OutDir} :
        /\ ~keep_unzipped => output_dir = None
        /\ ProcessZip(zip, keep_unzipped, output_dir)

SpecZip == ZipStart /\ [][ZipNext]_vars

SqlStart == FindIdle /\ FlatIdle /\ ZipInit /\ SqlInit

SqlNext ==
    \E chunk \in Chunks, table_name \in TableNames, batch_size \in 1..MaxBatch :
        WriteChunk(chunk, table_name, batch_size)

SpecSql == SqlStart /\ [][SqlNext]_vars

(***************************************************************************)
(* Properties of find_files_by_date_and_extension                          *)
(***************************************************************************)
AllDigits(s) == \A i \in 1..Len(s) : s[i] \in Digits

\* the documented token forms, by shape: YYYYMM, YYYYMMDD, YYYYMMDD-YYYYMMDD
IsMonthForm(s) == Len(s) = 6 /\ AllDigits(s)

IsDayForm(s) == Len(s) = 8 /\ AllDigits(s)

IsRangeForm(s) ==
    LET parts == Split(s, "-") IN
    /\ Len(parts) = 2
    /\ IsDayForm(Strip(parts[1]))
    /\ IsDayForm(Strip(parts[2]))

IsDocumentedForm(s) == IsMonthForm(s) \/ IsDayForm(s) \/ IsRangeForm(s)

\* the calendar, written down independently of the date arithmetic above
MonthLengths == <<31, 28, 31, 30, 31, 30, 31, 31, 30, 31, 30, 31>>

LastDayOfMonth(y, m) ==
    IF m = 2 /\ (y % 400 = 0 \/ (y % 4 = 0 /\ y % 100 # 0)) THEN 29
    ELSE MonthLengths[m]

\* a YYYYMM string that names a month of a year
IsMonthName(s) ==
    /\ IsMonthForm(s)
    /\ Num(SubSeq(s, 1, 4)) >= 1
    /\ Num(SubSeq(s, 5, 6)) \in 1..12

\* C1: for every valid month token YYYYMM the call parses it, start is the
\* first day of that month and end is the last calendar day of that month.
C1_MonthTokenEndsOnLastDay ==
    (find_pc # "call" /\ IsMonthName(date_input)) =>
        LET y == Num(SubSeq(date_input, 1, 4))
            m == Num(SubSeq(date_input, 5, 6))
        IN /\ find_pc = "returned"
           /\ start_date = Date(y, m, 1)
           /\ end_date = Date(y, m, LastDayOfMonth(y, m))

\* C1 witness: February of a leap year was parsed and ends on the 29th.
C1_LeapFebruaryParsed ==
    /\ find_pc = "returned"
    /\ date_input = Ym(2020, 2)
    /\ start_date = Date(2020, 2, 1)
    /\ end_date = Date(2020, 2, 29)

\* the files of an entry that end with the extension were all returned
EntrySearched(e) ==
    \A p \in e.files :
        EndsWith(p[Len(p)], matching_extension) =>
            [dir |-> e.name, path |-> p] \in matching_files

\* C2: after a call that returned, a subdirectory named YYYYMM is kept and
\* searched if the first day of the month it names lies in [start, end],
\* bounds included, and a subdirectory whose name is not a YYYYMM month name
\* is never kept.
C2_MonthDirectoriesKept ==
    find_pc = "returned" =>
        \A e \in base_dir :
            e.is_dir =>
                IF IsMonthName(e.name)
                THEN LET first == Date(Num(SubSeq(e.name, 1, 4)),
                                       Num(SubSeq(e.name, 5, 6)), 1)
                     IN (DateLE(start_date, first) /\ DateLE(first, end_date)) =>
                            (e.name \in passed /\ EntrySearched(e))
                ELSE e.name \notin passed

\* C3: after a call with a token of a documented form that returned, the
\* subdirectory named for the month of the start date (for a single-day
\* token: that day's month) was kept and its files with the extension are
\* in the result.
C3_StartMonthSearched ==
    (find_pc = "returned" /\ IsDocumentedForm(date_input)) =>
        \A e \in base_dir :
            (e.is_dir /\ e.name = Ym(start_date.y, start_date.m)) =>
                (e.name \in passed /\ EntrySearched(e))

\* C8: a token of none of the documented forms ends the call with the
\* ValueError, before any directory is scanned and with no file list.
C8_UndocumentedFormRejected ==
    (find_pc # "call" /\ ~IsDocumentedForm(date_input)) =>
        (find_pc = "ValueError" /\ ~scanned /\ matching_files = {})

(***************************************************************************)
(* Properties of flatten_iteratively                                       *)
(***************************************************************************)
RECURSIVE LeavesOf(_)
\* the non-list items of a list, depth first and left to right
LeavesOf(items) ==
    IF items = <<>> THEN <<>>
    ELSE (IF Head(items).isList THEN LeavesOf(Head(items).items)
          ELSE <<Head(items)>>) \o LeavesOf(Tail(items))

\* C4: for every nested list the function returns, and what it returns
\* holds no list and is exactly the non-list leaves of the argument in
\* depth-first, left-to-right order, one per occurrence.
C4_FlattenReturnsLeavesInOrder ==
    /\ <>(flat_pc = "returned")
    /\ [](flat_pc = "returned" =>
            /\ flattened = LeavesOf(nested_list)
            /\ \A i \in 1..Len(flattened) : ~flattened[i].isList)

\* C4 witness: [1, [2, [3, 4], 5], 6] was flattened to [1, 2, 3, 4, 5, 6].
C4_DocExampleFlattened ==
    /\ flat_pc = "returned"
    /\ nested_list = DocExample
    /\ flattened = <<Leaf(1), Leaf(2), Leaf(3), Leaf(4), Leaf(5), Leaf(6)>>

(***************************************************************************)
(* Properties of process_zipped_dat_files_with_fwf                         *)
(***************************************************************************)
ArchiveOf(id) == CHOOSE a \in Archives : a.id = id

DatMembers(a) == {f \in a.members : EndsWith(f.name, DatExt)}

RECURSIVE SumRows(_)
SumRows(files) ==
    IF files = {} THEN 0
    ELSE LET f == CHOOSE g \in files : TRUE IN f.nrows + SumRows(files \ {f})

\* the directory a keep_unzipped=True call leaves the files in
Destination(c) == IF c.output_dir = None THEN DefaultDir ELSE c.output_dir

\* C5: after a call returns, with keep_unzipped=False its temporary
\* directory does not exist, and with keep_unzipped=True the destination
\* directory exists and holds every file of the archive.
C5_ExtractionDirAfterReturn ==
    zcall.outcome = "returned" =>
        IF ~zcall.keep_unzipped
        THEN zcall.unzip_dir \notin DOMAIN fs
        ELSE /\ Destination(zcall) \in DOMAIN fs
             /\ ArchiveOf(zcall.zip).members \subseteq fs[Destination(zcall)]

\* C5 witness: a second call with keep_unzipped=False returned and its
\* temporary directory is gone, while the directory an earlier
\* keep_unzipped=True call filled is still there.
C5_TempRemovedOutputKept ==
    /\ ncalls = 2
    /\ zcall.outcome = "returned"
    /\ ~zcall.keep_unzipped
    /\ zcall.unzip_dir \notin DOMAIN fs
    /\ OutDir \in DOMAIN fs
    /\ ArchiveOf("same_columns").members \subseteq fs[OutDir]

\* C6: a call (into a fresh temporary directory) on an archive whose .dat
\* files have differing column sets ends with the ValueError, and one whose
\* .dat files have the same columns returns a table with as many rows as
\* the files have together.
C6_ColumnMismatchRaises ==
    LET dats == DatMembers(ArchiveOf(zcall.zip)) IN
    (/\ zcall.outcome # "none"
     /\ ~zcall.keep_unzipped
     /\ dats # {}
     /\ \A f \in dats : ~IsEmptyData(f)) =>
        IF \E f, g \in dats : f.cols # g.cols
        THEN zcall.outcome = "ValueError"
        ELSE /\ zcall.outcome = "returned"
             /\ Cardinality(zcall.table.rows) = SumRows(dats)

\* C9: after a call with keep_unzipped=False that failed, the temporary
\* directory the call created does not exist.
C9_TempRemovedOnFailure ==
    (zcall.outcome \notin {"none", "returned"} /\ ~zcall.keep_unzipped) =>
        zcall.unzip_dir \notin DOMAIN fs

\* C10: a keep_unzipped=True call builds its table only from the .dat files
\* of its own archive, and on an archive with no .dat file it raises
\* FileNotFoundError.
C10_OwnArchiveOnly ==
    (zcall.keep_unzipped /\ zcall.outcome # "none") =>
        /\ zcall.outcome = "returned" =>
               \A r \in zcall.table.rows : r.origin = zcall.zip
        /\ (ArchiveOf(zcall.zip).readable /\ DatMembers(ArchiveOf(zcall.zip)) = {}) =>
               zcall.outcome = "FileNotFoundError"

(***************************************************************************)
(* Properties of write_and_clean_chunk_to_sql                              *)
(***************************************************************************)
RECURSIVE CleanedRows(_)
\* the cleaned rows of a list of chunks, chunk after chunk
CleanedRows(chunks) ==
    IF chunks = <<>> THEN <<>>
    ELSE CleanChunk(Head(chunks)) \o CleanedRows(Tail(chunks))

\* C7: a table holds exactly the cleaned rows of every chunk written to it,
\* in the order of the calls: a call adds its rows after the rows already
\* there, which stay as they were, and a chunk written twice is there twice.
C7_TableIsEveryChunkWritten ==
    \A t \in TableNames :
        IF t \in DOMAIN tables THEN tables[t] = CleanedRows(written[t])
        ELSE written[t] = <<>>

\* C7 witness: the same two-row chunk was written twice to one table,
\* which holds its rows twice.
C7_SameChunkTwice ==
    \E t \in DOMAIN tables :
        /\ Len(written[t]) = 2
        /\ written[t][1] = written[t][2]
        /\ Len(written[t][1]) = 2
        /\ tables[t] = CleanChunk(written[t][1]) \o CleanChunk(written[t][1])

=============================================================================
